---- MODULE Spec2Model ----
(***************************************************************************)
(* Model of crates/beerus-core/src/lightclient/beerus.rs: the Beerus light *)
(* client orchestrator (BeerusLightClient), its NodeData cache, the        *)
(* background sync loop spawned by start(), and the cache-served queries.  *)
(***************************************************************************)
EXTENDS Integers, Sequences, FiniteSets, TLC

\* ------------------------------------------------------------------ bounds
\* Block numbers the L2 provider may report: 0..MaxBlockNumber.
MaxBlockNumber == 2
\* start() calls made by the owner of the client.
MaxStartCalls == 3
\* Longest transaction list of a block in the projection specification.
MaxTxs == 2

\* Opaque values: the code only compares them for equality (two suffice) or
\* formats them, so each domain is a small explicit set.
Roots == {7, 12}
Hashes == {1, 2}
TxHashes == {1, 2}

\* BlockStatus values of the blocks the provider reports. The code compares a
\* status with Pending only, so one finalized status stands for the three.
Statuses == {"AcceptedOnL2", "Pending"}

VARIABLES
    sync_status,    \* BeerusLightClient.sync_status
    node,           \* the NodeData behind BeerusLightClient.node
    eth_starts,     \* calls of ethereum_lightclient.start()
    sn_starts,      \* calls of starknet_lightclient.start()
    spawned,        \* sync-loop tasks handed to tokio::spawn
    start_calls,    \* calls of BeerusLightClient::start
    start_result,   \* what the latest start() call returned
    loop_pc,        \* position of the spawned sync-loop task
    fetched,        \* the loop's local: the provider answer of this iteration
    accepted,       \* history: blocks that passed the acceptance test
    highest_seen,   \* history: first finalized answer with the highest number
    result,         \* outcome of the query performed by the latest step
    l1_state_root,  \* the StarkNet state root the L1 oracle attests now
    node_lock,      \* the RwLock around node: its writer and its read guards
    query_pc,       \* position of a receipt lookup running as a task of its own
    query_tx,       \* that lookup's tx_hash argument
    l1_read,        \* the loop's locals state_root and last_proven_block
    answers         \* history: the provider's answers to the loop, in order

vars == <<sync_status, node, eth_starts, sn_starts, spawned, start_calls,
          start_result, loop_pc, fetched, accepted, highest_seen, result,
          l1_state_root, node_lock, query_pc, query_tx, l1_read, answers>>

\* The oracle's root and the lock-level state: the handlers that run as one
\* step take and drop their guard within the step and leave these alone.
env_vars == <<l1_state_root, node_lock, query_pc, query_tx>>

\* The two values the loop reads from L1 and only logs, and the record of the
\* provider's answers: kept where acceptance is compared with the L1 values.
iter_vars == <<l1_read, answers>>

\* ------------------------------------------------------------- conversions
Digit == <<"0", "1", "2", "3", "4", "5", "6", "7", "8", "9">>

\* Display of FieldElement and of U256: the decimal representation.
RECURSIVE to_string(_)
to_string(n) ==
    IF n < 10 THEN Digit[n + 1]
    ELSE to_string(n \div 10) \o Digit[(n % 10) + 1]

MaxOf(S) == IF S = {} THEN 0 ELSE CHOOSE x \in S : \A y \in S : y <= x

\* ------------------------------------------------------------------- data
\* BTreeMap<u64, BlockWithTxs>
EmptyPayload == [k \in {} |-> 0]

NodeData_new ==
    [block_number |-> 0, state_root |-> "", payload |-> EmptyPayload]

\* BlockWithTxs values with the given field domains. parent_hash, timestamp
\* and sequencer_address are only copied by the code.
BlocksOf(Numbers, NewRoots, BlockHashes, BlockStatuses, TxLists) ==
    [block_number : Numbers, new_root : NewRoots, block_hash : BlockHashes,
     status : BlockStatuses, transactions : TxLists,
     parent_hash : {0}, timestamp : {0}, sequencer_address : {0}]

\* What the provider may answer to get_block_with_txs(Latest).
NoAnswer == [kind |-> "None"]
ProviderAnswers(Blocks) ==
    [kind : {"Block"}, block : Blocks]
        \cup [kind : {"PendingBlock"}, parent_hash : Hashes]
        \cup {[kind |-> "Err"]}

\* What the L1 oracle may answer to starknet_state_root().
L1RootAnswers == [ok : {TRUE}, value : Roots] \cup {[ok |-> FALSE]}
\* What the L1 oracle may answer to starknet_last_proven_block().
L1BlockAnswers == [ok : {TRUE}, value : 0..MaxBlockNumber] \cup {[ok |-> FALSE]}

NotSeen == [seen |-> FALSE]
NoResult == [op |-> "none"]

\* RwLock::new(node_raw)
Unlocked == [writer |-> FALSE, readers |-> 0]
NoTx == << >>

\* Before the first iteration has read anything from L1.
NoL1Read == [kind |-> "None"]

\* ------------------------------------------------------------ the sync loop
\* The acceptance test of the loop.
IsNewer_NotEqual(block, data) == block.block_number # data.block_number

IsNewer_AtLeast(block, data) == block.block_number >= data.block_number

IsNewer(block, data) ==
    block.block_number > data.block_number /\ 0 < block.block_number

\* The three assignments of the acceptance branch.
Insert_KeepRoot(data, block) ==
    [block_number |-> block.block_number,
     state_root |-> data.state_root,
     payload |-> [k \in DOMAIN data.payload \cup {block.block_number} |->
                    IF k = block.block_number THEN block ELSE data.payload[k]]]

Insert_OnlyLatest(data, block) ==
    [block_number |-> block.block_number,
     state_root |-> to_string(block.new_root),
     payload |-> [k \in {block.block_number} |-> block]]

Insert(data, block) ==
    [block_number |-> block.block_number,
     state_root |-> to_string(block.new_root),
     payload |-> [k \in DOMAIN data.payload \cup {block.block_number} |->
                    IF k = block.block_number THEN block ELSE data.payload[k]]]

\* match block { Block(block) => ..., PendingBlock(_) => warn }
Merge_PendingResets(data, answer) ==
    IF answer.kind = "Block"
    THEN IF IsNewer(answer.block, data) THEN Insert(data, answer.block) ELSE data
    ELSE NodeData_new

Merge_AlwaysInsert(data, answer) ==
    IF answer.kind = "Block" THEN Insert(data, answer.block) ELSE data

\* The test the code has in a comment: accept only the L1-proven number.
Merge_OnlyProven(data, answer) ==
    IF answer.kind = "Block"
    THEN IF /\ answer.block.block_number > data.block_number
            /\ answer.block.block_number = l1_read.last_proven_block
         THEN Insert(data, answer.block)
         ELSE data
    ELSE data

Merge(data, answer) ==
    IF answer.kind = "Block"
    THEN IF IsNewer(answer.block, data) THEN Insert(data, answer.block) ELSE data
    ELSE data

\* History: the blocks for which the acceptance branch ran.
Accepted(acc, data, answer) ==
    IF answer.kind = "Block" /\ IsNewer(answer.block, data)
    THEN acc \cup {answer.block}
    ELSE acc

\* History: the first finalized answer carrying the highest number so far.
Seen(hi, answer) ==
    IF answer.kind # "Block" THEN hi
    ELSE IF hi.seen /\ hi.block.block_number >= answer.block.block_number THEN hi
    ELSE [seen |-> TRUE, block |-> answer.block]

\* ------------------------------------------------------------------ start()
\* BeerusLightClient::new
Init ==
    /\ sync_status = "NotSynced"
    /\ node = NodeData_new
    /\ eth_starts = 0
    /\ sn_starts = 0
    /\ spawned = 0
    /\ start_calls = 0
    /\ start_result = "none"
    /\ loop_pc = "none"
    /\ fetched = NoAnswer
    /\ accepted = {}
    /\ highest_seen = NotSeen
    /\ result = NoResult
    /\ l1_state_root = 7
    /\ node_lock = Unlocked
    /\ query_pc = "idle"
    /\ query_tx = NoTx
    /\ l1_read = NoL1Read
    /\ answers = << >>

\* if let SyncStatus::NotSynced = self.sync_status
ShouldStart_Always(status) == TRUE

ShouldStart(status) == status = "NotSynced"

start_StatusBeforeStarknet(eth_ok, sn_ok) ==
    /\ start_calls < MaxStartCalls
    /\ start_calls' = start_calls + 1
    /\ result' = NoResult
    /\ UNCHANGED env_vars
    /\ UNCHANGED iter_vars
    /\ UNCHANGED <<node, fetched, accepted, highest_seen>>
    /\ IF ShouldStart(sync_status)
       THEN /\ eth_starts' = eth_starts + 1
            /\ IF ~eth_ok
               THEN /\ start_result' = "Err(ethereum)"
                    /\ UNCHANGED <<sn_starts, sync_status, spawned, loop_pc>>
               ELSE /\ sn_starts' = sn_starts + 1
                    /\ sync_status' = "Synced"
                    /\ IF ~sn_ok
                       THEN /\ start_result' = "Err(starknet)"
                            /\ UNCHANGED <<spawned, loop_pc>>
                       ELSE /\ spawned' = spawned + 1
                            /\ loop_pc' = "state_root"
                            /\ start_result' = "Ok"
       ELSE /\ start_result' = "Ok"
            /\ UNCHANGED <<eth_starts, sn_starts, sync_status, spawned, loop_pc>>

\* BeerusLightClient::start, the two light clients answering eth_ok and sn_ok.
start(eth_ok, sn_ok) ==
    /\ start_calls < MaxStartCalls
    /\ start_calls' = start_calls + 1
    /\ result' = NoResult
    /\ UNCHANGED env_vars
    /\ UNCHANGED iter_vars
    /\ UNCHANGED <<node, fetched, accepted, highest_seen>>
    /\ IF ShouldStart(sync_status)
       THEN /\ eth_starts' = eth_starts + 1
            /\ IF ~eth_ok
               THEN /\ start_result' = "Err(ethereum)"
                    /\ UNCHANGED <<sn_starts, sync_status, spawned, loop_pc>>
               ELSE /\ sn_starts' = sn_starts + 1
                    /\ IF ~sn_ok
                       THEN /\ start_result' = "Err(starknet)"
                            /\ UNCHANGED <<sync_status, spawned, loop_pc>>
                       ELSE /\ sync_status' = "Synced"
                            /\ spawned' = spawned + 1
                            /\ loop_pc' = "state_root"
                            /\ start_result' = "Ok"
       ELSE /\ start_result' = "Ok"
            /\ UNCHANGED <<eth_starts, sn_starts, sync_status, spawned, loop_pc>>

\* ------------------------------------------------------ sync-loop iteration
\* ethereum_clone.read().await.starknet_state_root().await.unwrap()
LoopStateRoot ==
    /\ loop_pc = "state_root"
    /\ \E answer \in L1RootAnswers :
          loop_pc' = IF answer.ok THEN "last_proven_block" ELSE "panicked"
    /\ result' = NoResult
    /\ UNCHANGED env_vars
    /\ UNCHANGED iter_vars
    /\ UNCHANGED <<sync_status, node, eth_starts, sn_starts, spawned,
                   start_calls, start_result, fetched, accepted, highest_seen>>

\* ethereum_clone.read().await.starknet_last_proven_block().await.unwrap()
LoopLastProvenBlock ==
    /\ loop_pc = "last_proven_block"
    /\ \E answer \in L1BlockAnswers :
          loop_pc' = IF answer.ok THEN "fetch" ELSE "panicked"
    /\ result' = NoResult
    /\ UNCHANGED env_vars
    /\ UNCHANGED iter_vars
    /\ UNCHANGED <<sync_status, node, eth_starts, sn_starts, spawned,
                   start_calls, start_result, fetched, accepted, highest_seen>>

LoopFetch_ErrUnwraps(Blocks) ==
    /\ loop_pc = "fetch"
    /\ \E answer \in ProviderAnswers(Blocks) :
          /\ fetched' = answer
          /\ highest_seen' = Seen(highest_seen, answer)
          /\ loop_pc' = IF answer.kind = "Err" THEN "panicked" ELSE "merge"
    /\ result' = NoResult
    /\ UNCHANGED env_vars
    /\ UNCHANGED iter_vars
    /\ UNCHANGED <<sync_status, node, eth_starts, sn_starts, spawned,
                   start_calls, start_result, accepted>>

\* starknet_clone.get_block_with_txs(Latest).await, answered from Blocks.
LoopFetch(Blocks) ==
    /\ loop_pc = "fetch"
    /\ \E answer \in ProviderAnswers(Blocks) :
          /\ fetched' = answer
          /\ highest_seen' = Seen(highest_seen, answer)
          /\ loop_pc' = IF answer.kind = "Err" THEN "sleep" ELSE "merge"
    /\ result' = NoResult
    /\ UNCHANGED env_vars
    /\ UNCHANGED iter_vars
    /\ UNCHANGED <<sync_status, node, eth_starts, sn_starts, spawned,
                   start_calls, start_result, accepted>>

\* Ok(block) => { let mut data = node_clone.write().await; match block ... }
LoopMerge ==
    /\ loop_pc = "merge"
    /\ node' = Merge(node, fetched)
    /\ accepted' = Accepted(accepted, node, fetched)
    /\ loop_pc' = "sleep"
    /\ result' = NoResult
    /\ UNCHANGED env_vars
    /\ UNCHANGED iter_vars
    /\ UNCHANGED <<sync_status, eth_starts, sn_starts, spawned, start_calls,
                   start_result, fetched, highest_seen>>

\* thread::sleep(5 s), then the next iteration of loop { }
LoopSleep ==
    /\ loop_pc = "sleep"
    /\ loop_pc' = "state_root"
    /\ fetched' = NoAnswer
    /\ result' = NoResult
    /\ UNCHANGED env_vars
    /\ UNCHANGED iter_vars
    /\ UNCHANGED <<sync_status, node, eth_starts, sn_starts, spawned,
                   start_calls, start_result, accepted, highest_seen>>

\* The same three steps of an iteration, keeping what they read: state_root
\* and last_proven_block live until the next iteration overwrites them.
LoopReadStateRoot ==
    /\ loop_pc = "state_root"
    /\ \E answer \in L1RootAnswers :
          IF answer.ok
          THEN /\ l1_read' = [state_root |-> answer.value]
               /\ loop_pc' = "last_proven_block"
          ELSE /\ l1_read' = l1_read
               /\ loop_pc' = "panicked"
    /\ result' = NoResult
    /\ UNCHANGED env_vars
    /\ UNCHANGED answers
    /\ UNCHANGED <<sync_status, node, eth_starts, sn_starts, spawned,
                   start_calls, start_result, fetched, accepted, highest_seen>>

LoopReadLastProvenBlock ==
    /\ loop_pc = "last_proven_block"
    /\ \E answer \in L1BlockAnswers :
          IF answer.ok
          THEN /\ l1_read' = [state_root |-> l1_read.state_root,
                              last_proven_block |-> answer.value]
               /\ loop_pc' = "fetch"
          ELSE /\ l1_read' = l1_read
               /\ loop_pc' = "panicked"
    /\ result' = NoResult
    /\ UNCHANGED env_vars
    /\ UNCHANGED answers
    /\ UNCHANGED <<sync_status, node, eth_starts, sn_starts, spawned,
                   start_calls, start_result, fetched, accepted, highest_seen>>

\* The fetch, recorded: at most MaxBlockNumber + 1 answers are followed.
LoopFetchRecorded(Blocks) ==
    /\ loop_pc = "fetch"
    /\ Len(answers) <= MaxBlockNumber
    /\ \E answer \in ProviderAnswers(Blocks) :
          /\ fetched' = answer
          /\ answers' = Append(answers, answer)
          /\ highest_seen' = Seen(highest_seen, answer)
          /\ loop_pc' = IF answer.kind = "Err" THEN "sleep" ELSE "merge"
    /\ result' = NoResult
    /\ UNCHANGED env_vars
    /\ UNCHANGED l1_read
    /\ UNCHANGED <<sync_status, node, eth_starts, sn_starts, spawned,
                   start_calls, start_result, accepted>>

\* ------------------------------------------------------------------ queries
Ok(v) == [kind |-> "Ok", value |-> v]
Err(m) == [kind |-> "Err", msg |-> m]
Panic == [kind |-> "Panic"]

\* payload.get(&cloned_node.block_number), then the match on the Option.
BlockHashAndNumber_Default(data) ==
    IF data.block_number \in DOMAIN data.payload
    THEN Ok([block_hash |-> data.payload[data.block_number].block_hash,
             block_number |-> data.payload[data.block_number].block_number])
    ELSE Ok([block_hash |-> 0, block_number |-> 0])

BlockHashAndNumber(data) ==
    IF data.block_number \in DOMAIN data.payload
    THEN Ok([block_hash |-> data.payload[data.block_number].block_hash,
             block_number |-> data.payload[data.block_number].block_number])
    ELSE Err("Block not found")

\* BeerusLightClient::get_block_hash_and_number
get_block_hash_and_number ==
    /\ result' = [op |-> "get_block_hash_and_number",
                  out |-> BlockHashAndNumber(node)]
    /\ UNCHANGED env_vars
    /\ UNCHANGED iter_vars
    /\ UNCHANGED <<sync_status, node, eth_starts, sn_starts, spawned,
                   start_calls, start_result, loop_pc, fetched, accepted,
                   highest_seen>>

\* Transaction values: the hash and one further field of each variant.
Transactions ==
    [kind : {"InvokeV0", "InvokeV1", "L1Handler"},
     transaction_hash : TxHashes, nonce : {0}]
        \cup [kind : {"Declare", "Deploy", "DeployAccount"},
              transaction_hash : TxHashes, class_hash : {0}]

\* The closure mapped over block.transactions.
TxHashOf_DeployClassHash(tx) ==
    IF tx.kind = "Deploy" THEN tx.class_hash ELSE tx.transaction_hash

TxHashOf(tx) ==
    CASE tx.kind = "InvokeV0" -> tx.transaction_hash
      [] tx.kind = "InvokeV1" -> tx.transaction_hash
      [] tx.kind \in {"L1Handler", "Declare", "Deploy", "DeployAccount"} ->
            tx.transaction_hash

\* BlockWithTxHashes built from the resolved block.
WithTxHashes(block) ==
    [transactions |-> [i \in 1..Len(block.transactions) |->
                          TxHashOf(block.transactions[i])],
     status |-> block.status,
     block_hash |-> block.block_hash,
     parent_hash |-> block.parent_hash,
     block_number |-> block.block_number,
     new_root |-> block.new_root,
     timestamp |-> block.timestamp,
     sequencer_address |-> block.sequencer_address]

\* BlockId
BlockIds ==
    [tag : {"Number"}, number : 0..MaxBlockNumber]
        \cup [tag : {"Hash"}, hash : Hashes \cup {0}]
        \cup [tag : {"Latest", "Pending"}]

\* payload.values().find(..): the keys of a BTreeMap iterate in ascending order.
KeysWithHash(payload, hash) ==
    {k \in DOMAIN payload : payload[k].block_hash = hash}

KeysWithStatus(payload, status) ==
    {k \in DOMAIN payload : payload[k].status = status}

MinOf(S) == CHOOSE x \in S : \A y \in S : x <= y

Resolve_LatestFallback(data, block_id) ==
    CASE block_id.tag = "Number" ->
            IF block_id.number \in DOMAIN data.payload
            THEN [found |-> TRUE, key |-> block_id.number]
            ELSE [found |-> FALSE, msg |-> "Error while retrieving block."]
      [] block_id.tag = "Hash" ->
            IF KeysWithHash(data.payload, block_id.hash) # {}
            THEN [found |-> TRUE,
                  key |-> MinOf(KeysWithHash(data.payload, block_id.hash))]
            ELSE IF data.block_number \in DOMAIN data.payload
                 THEN [found |-> TRUE, key |-> data.block_number]
                 ELSE [found |-> FALSE,
                       msg |-> "Block with hash {} not found in the payload."]
      [] block_id.tag = "Latest" ->
            IF data.block_number \in DOMAIN data.payload
            THEN [found |-> TRUE, key |-> data.block_number]
            ELSE [found |-> FALSE, msg |-> "Error while retrieving block."]
      [] block_id.tag = "Pending" ->
            IF KeysWithStatus(data.payload, "Pending") # {}
            THEN [found |-> TRUE,
                  key |-> MinOf(KeysWithStatus(data.payload, "Pending"))]
            ELSE [found |-> FALSE,
                  msg |-> "Block with pending status not found in the payload."]

\* let block = match block_id { ... }: the key found, or the early return.
Resolve(data, block_id) ==
    CASE block_id.tag = "Number" ->
            IF block_id.number \in DOMAIN data.payload
            THEN [found |-> TRUE, key |-> block_id.number]
            ELSE [found |-> FALSE, msg |-> "Error while retrieving block."]
      [] block_id.tag = "Hash" ->
            IF KeysWithHash(data.payload, block_id.hash) # {}
            THEN [found |-> TRUE,
                  key |-> MinOf(KeysWithHash(data.payload, block_id.hash))]
            ELSE [found |-> FALSE,
                  msg |-> "Block with hash {} not found in the payload."]
      [] block_id.tag = "Latest" ->
            IF data.block_number \in DOMAIN data.payload
            THEN [found |-> TRUE, key |-> data.block_number]
            ELSE [found |-> FALSE, msg |-> "Error while retrieving block."]
      [] block_id.tag = "Pending" ->
            IF KeysWithStatus(data.payload, "Pending") # {}
            THEN [found |-> TRUE,
                  key |-> MinOf(KeysWithStatus(data.payload, "Pending"))]
            ELSE [found |-> FALSE,
                  msg |-> "Block with pending status not found in the payload."]

\* BeerusLightClient::get_block_with_tx_hashes
get_block_with_tx_hashes(block_id) ==
    /\ result' =
          [op |-> "get_block_with_tx_hashes",
           block_id |-> block_id,
           out |-> IF Resolve(node, block_id).found
                   THEN Ok(WithTxHashes(node.payload[Resolve(node, block_id).key]))
                   ELSE Err(Resolve(node, block_id).msg)]
    /\ UNCHANGED env_vars
    /\ UNCHANGED iter_vars
    /\ UNCHANGED <<sync_status, node, eth_starts, sn_starts, spawned,
                   start_calls, start_result, loop_pc, fetched, accepted,
                   highest_seen>>

\* Transaction hashes as callers pass them: strings, here as character lists.
TxHashStrings == {<<"0", "x", "1">>, <<"0", "x", "g">>}

HexDigits == {"0", "1", "2", "3", "4", "5", "6", "7", "8", "9",
              "a", "b", "c", "d", "e", "f"}

\* value.trim_start_matches("0x")
RECURSIVE TrimPrefix0x(_)
TrimPrefix0x(s) ==
    IF Len(s) >= 2 /\ s[1] = "0" /\ s[2] = "x"
    THEN TrimPrefix0x(SubSeq(s, 3, Len(s)))
    ELSE s

\* FieldElement::from_hex_be(&tx_hash) is Ok exactly for hexadecimal digits.
from_hex_be_ok(s) == \A i \in 1..Len(TrimPrefix0x(s)) : TrimPrefix0x(s)[i] \in HexDigits

\* What the provider may answer to get_transaction_receipt.
ReceiptAnswers == {Ok("receipt"), Err("provider")}

\* The freshness check of the receipt lookup.
RootsDiffer_Never(cached, l1_root) == FALSE

RootsDiffer(cached, l1_root) == cached # to_string(l1_root)

starknet_get_transaction_receipt_Refreshes(tx_hash, l1, provider) ==
    /\ result' =
          [op |-> "starknet_get_transaction_receipt",
           tx_hash |-> tx_hash,
           l1 |-> l1,
           provider |-> provider,
           out |-> IF ~l1.ok THEN Err("l1")
                   ELSE IF RootsDiffer(node.state_root, l1.value)
                        THEN Err("State root mismatch")
                   ELSE IF ~from_hex_be_ok(tx_hash) THEN Panic
                   ELSE provider]
    /\ node' = IF l1.ok /\ RootsDiffer(node.state_root, l1.value)
               THEN [node EXCEPT !.state_root = to_string(l1.value)]
               ELSE node
    /\ UNCHANGED env_vars
    /\ UNCHANGED iter_vars
    /\ UNCHANGED <<sync_status, eth_starts, sn_starts, spawned,
                   start_calls, start_result, loop_pc, fetched, accepted,
                   highest_seen>>

\* BeerusLightClient::starknet_get_transaction_receipt
starknet_get_transaction_receipt(tx_hash, l1, provider) ==
    /\ result' =
          [op |-> "starknet_get_transaction_receipt",
           tx_hash |-> tx_hash,
           l1 |-> l1,
           provider |-> provider,
           out |-> IF ~l1.ok THEN Err("l1")
                   ELSE IF RootsDiffer(node.state_root, l1.value)
                        THEN Err("State root mismatch")
                   ELSE IF ~from_hex_be_ok(tx_hash) THEN Panic
                   ELSE provider]
    /\ UNCHANGED env_vars
    /\ UNCHANGED iter_vars
    /\ UNCHANGED <<sync_status, node, eth_starts, sn_starts, spawned,
                   start_calls, start_result, loop_pc, fetched, accepted,
                   highest_seen>>

\* What the provider may answer to a state read, a fee estimate or a
\* transaction lookup.
CallAnswers == {Ok("value"), Err("provider")}

\* let last_block = ...starknet_last_proven_block().await?.as_u64(); and the
\* provider call made with it: `?` returns before the provider is reached.
LastBlockCall_OrDefault(l1, provider) ==
    IF ~l1.ok
    THEN [called |-> TRUE, block |-> 0, out |-> provider]
    ELSE [called |-> TRUE, block |-> l1.value, out |-> provider]

LastBlockCall(l1, provider) ==
    IF ~l1.ok
    THEN [called |-> FALSE, out |-> Err("l1")]
    ELSE [called |-> TRUE, block |-> l1.value, out |-> provider]

\* The three state reads share their shape: op names the one performed.
StateRead(op, l1, provider) ==
    /\ result' = [op |-> op,
                  l1 |-> l1,
                  call |-> LastBlockCall(l1, provider),
                  out |-> LastBlockCall(l1, provider).out]
    /\ UNCHANGED env_vars
    /\ UNCHANGED iter_vars
    /\ UNCHANGED <<sync_status, node, eth_starts, sn_starts, spawned,
                   start_calls, start_result, loop_pc, fetched, accepted,
                   highest_seen>>

\* BeerusLightClient::starknet_get_storage_at
starknet_get_storage_at(l1, provider) ==
    StateRead("starknet_get_storage_at", l1, provider)

\* BeerusLightClient::starknet_call_contract
starknet_call_contract(l1, provider) ==
    StateRead("starknet_call_contract", l1, provider)

\* BeerusLightClient::starknet_get_nonce
starknet_get_nonce(l1, provider) ==
    StateRead("starknet_get_nonce", l1, provider)

\* BeerusLightClient::starknet_estimate_fee: the provider's answer, as it is.
starknet_estimate_fee(provider) ==
    /\ result' = [op |-> "starknet_estimate_fee", out |-> provider]
    /\ UNCHANGED env_vars
    /\ UNCHANGED iter_vars
    /\ UNCHANGED <<sync_status, node, eth_starts, sn_starts, spawned,
                   start_calls, start_result, loop_pc, fetched, accepted,
                   highest_seen>>

\* The four reads of the StarkNet core contract on L1.
L1MessageOps ==
    {"starknet_l1_to_l2_message_cancellations", "starknet_l1_to_l2_messages",
     "starknet_l2_to_l1_messages", "starknet_l1_to_l2_message_nonce"}

\* What encode_function_data and the L1 call may answer.
L1CallAnswers == {Ok("bytes"), Err("encode"), Err("l1")}

\* encode_function_data(..)?, then ethereum_lightclient.call(..).await?
L1MessageRead(op, answer) ==
    /\ result' = [op |-> op, out |-> answer]
    /\ UNCHANGED env_vars
    /\ UNCHANGED iter_vars
    /\ UNCHANGED <<sync_status, node, eth_starts, sn_starts, spawned,
                   start_calls, start_result, loop_pc, fetched, accepted,
                   highest_seen>>

DecDigits == {"0", "1", "2", "3", "4", "5", "6", "7", "8", "9"}

\* FieldElement::from_str(&tx_hash): hexadecimal after "0x", decimal otherwise.
from_str_ok(s) ==
    IF Len(s) >= 2 /\ s[1] = "0" /\ s[2] = "x"
    THEN from_hex_be_ok(s)
    ELSE \A i \in 1..Len(s) : s[i] \in DecDigits

\* BeerusLightClient::get_transaction_by_hash: `?` on the parse, unwrap() on
\* the provider's answer.
get_transaction_by_hash(tx_hash, provider) ==
    /\ result' =
          [op |-> "get_transaction_by_hash",
           tx_hash |-> tx_hash,
           provider |-> provider,
           out |-> IF ~from_str_ok(tx_hash) THEN Err("parse")
                   ELSE IF provider.kind = "Err" THEN Panic
                   ELSE provider]
    /\ UNCHANGED env_vars
    /\ UNCHANGED iter_vars
    /\ UNCHANGED <<sync_status, node, eth_starts, sn_starts, spawned,
                   start_calls, start_result, loop_pc, fetched, accepted,
                   highest_seen>>

\* The L1 oracle moves on to attest another root.
L1Advance ==
    /\ \E root \in Roots \ {l1_state_root} : l1_state_root' = root
    /\ result' = NoResult
    /\ UNCHANGED <<node_lock, query_pc, query_tx>>
    /\ UNCHANGED iter_vars
    /\ UNCHANGED <<sync_status, node, eth_starts, sn_starts, spawned,
                   start_calls, start_result, loop_pc, fetched, accepted,
                   highest_seen>>

\* starknet_state_root() as the oracle answers it now, or its failure.
OracleRootAnswers == {[ok |-> TRUE, value |-> l1_state_root], [ok |-> FALSE]}

\* ------------------------------------------------------- the lock on node
\* tokio::sync::RwLock: read() is granted while no writer holds the lock,
\* write() while nobody holds it.
CanRead_Always(lock) == TRUE

CanRead(lock) == ~lock.writer

CanWrite(lock) == ~lock.writer /\ lock.readers = 0

\* let mut data = node_clone.write().await; and the test of the match arm.
LoopAcquireWrite ==
    /\ loop_pc = "merge"
    /\ CanWrite(node_lock)
    /\ node_lock' = [node_lock EXCEPT !.writer = TRUE]
    /\ loop_pc' = IF fetched.kind = "Block" /\ IsNewer(fetched.block, node)
                  THEN "assign_number"
                  ELSE "release"
    /\ result' = NoResult
    /\ UNCHANGED <<l1_state_root, query_pc, query_tx>>
    /\ UNCHANGED iter_vars
    /\ UNCHANGED <<sync_status, node, eth_starts, sn_starts, spawned,
                   start_calls, start_result, fetched, accepted, highest_seen>>

\* data.block_number = block.block_number;
LoopAssignNumber ==
    /\ loop_pc = "assign_number"
    /\ node' = [node EXCEPT !.block_number = fetched.block.block_number]
    /\ loop_pc' = "assign_root"
    /\ result' = NoResult
    /\ UNCHANGED env_vars
    /\ UNCHANGED iter_vars
    /\ UNCHANGED <<sync_status, eth_starts, sn_starts, spawned, start_calls,
                   start_result, fetched, accepted, highest_seen>>

\* data.state_root = block.new_root.to_string();
LoopAssignRoot ==
    /\ loop_pc = "assign_root"
    /\ node' = [node EXCEPT !.state_root = to_string(fetched.block.new_root)]
    /\ loop_pc' = "insert"
    /\ result' = NoResult
    /\ UNCHANGED env_vars
    /\ UNCHANGED iter_vars
    /\ UNCHANGED <<sync_status, eth_starts, sn_starts, spawned, start_calls,
                   start_result, fetched, accepted, highest_seen>>

\* data.payload.insert(block.block_number, block);
LoopInsert ==
    /\ loop_pc = "insert"
    /\ node' = [node EXCEPT !.payload =
                   [k \in DOMAIN node.payload \cup {fetched.block.block_number} |->
                       IF k = fetched.block.block_number
                       THEN fetched.block
                       ELSE node.payload[k]]]
    /\ accepted' = accepted \cup {fetched.block}
    /\ loop_pc' = "release"
    /\ result' = NoResult
    /\ UNCHANGED env_vars
    /\ UNCHANGED iter_vars
    /\ UNCHANGED <<sync_status, eth_starts, sn_starts, spawned, start_calls,
                   start_result, fetched, highest_seen>>

\* The end of the Ok(block) arm drops data, before thread::sleep.
LoopReleaseWrite ==
    /\ loop_pc = "release"
    /\ node_lock' = [node_lock EXCEPT !.writer = FALSE]
    /\ loop_pc' = "sleep"
    /\ result' = NoResult
    /\ UNCHANGED <<l1_state_root, query_pc, query_tx>>
    /\ UNCHANGED iter_vars
    /\ UNCHANGED <<sync_status, node, eth_starts, sn_starts, spawned,
                   start_calls, start_result, fetched, accepted, highest_seen>>

\* get_block_hash_and_number takes the read guard, copies and answers with no
\* await in between.
LockedHashAndNumber ==
    /\ CanRead(node_lock)
    /\ get_block_hash_and_number

\* starknet_get_transaction_receipt, one step per await.
\* let cloned_node = self.node.read().await;
ReceiptBegin(tx_hash) ==
    /\ query_pc = "idle"
    /\ CanRead(node_lock)
    /\ node_lock' = [node_lock EXCEPT !.readers = @ + 1]
    /\ query_pc' = "await_l1"
    /\ query_tx' = tx_hash
    /\ result' = NoResult
    /\ UNCHANGED l1_state_root
    /\ UNCHANGED iter_vars
    /\ UNCHANGED <<sync_status, node, eth_starts, sn_starts, spawned,
                   start_calls, start_result, loop_pc, fetched, accepted,
                   highest_seen>>

\* starknet_state_root().await? answers; the comparison, the parse, and the
\* provider call is sent. Every return and the panic drop cloned_node.
ReceiptL1(l1) ==
    /\ query_pc = "await_l1"
    /\ IF l1.ok /\ ~RootsDiffer(node.state_root, l1.value)
             /\ from_hex_be_ok(query_tx)
       THEN /\ query_pc' = "await_l2"
            /\ result' = NoResult
            /\ UNCHANGED <<node_lock, query_tx>>
       ELSE /\ query_pc' = "idle"
            /\ query_tx' = NoTx
            /\ node_lock' = [node_lock EXCEPT !.readers = @ - 1]
            /\ result' = [op |-> "starknet_get_transaction_receipt",
                          tx_hash |-> query_tx,
                          out |-> IF ~l1.ok THEN Err("l1")
                                  ELSE IF RootsDiffer(node.state_root, l1.value)
                                       THEN Err("State root mismatch")
                                  ELSE Panic]
    /\ UNCHANGED l1_state_root
    /\ UNCHANGED iter_vars
    /\ UNCHANGED <<sync_status, node, eth_starts, sn_starts, spawned,
                   start_calls, start_result, loop_pc, fetched, accepted,
                   highest_seen>>

\* get_transaction_receipt(tx_hash_felt).await? answers and the call returns.
ReceiptL2(provider) ==
    /\ query_pc = "await_l2"
    /\ query_pc' = "idle"
    /\ query_tx' = NoTx
    /\ node_lock' = [node_lock EXCEPT !.readers = @ - 1]
    /\ result' = [op |-> "starknet_get_transaction_receipt",
                  tx_hash |-> query_tx,
                  out |-> provider]
    /\ UNCHANGED l1_state_root
    /\ UNCHANGED iter_vars
    /\ UNCHANGED <<sync_status, node, eth_starts, sn_starts, spawned,
                   start_calls, start_result, loop_pc, fetched, accepted,
                   highest_seen>>

\* ------------------------------------------------------------ specification
\* Lifecycle and synchronization; the provider varies number, root and status.
SyncBlocks ==
    BlocksOf(0..MaxBlockNumber, Roots, {1}, Statuses, {<< >>})

StartAny == \E eth_ok \in BOOLEAN, sn_ok \in BOOLEAN : start(eth_ok, sn_ok)

SyncFetch == LoopFetch(SyncBlocks)

Next ==
    \/ StartAny
    \/ LoopStateRoot
    \/ LoopLastProvenBlock
    \/ SyncFetch
    \/ LoopMerge
    \/ LoopSleep

Spec == Init /\ [][Next]_vars

\* Queries against the synchronizing cache; the provider varies number, hash
\* and status, and the L1 oracle varies the root it reports.
QueryBlocks ==
    BlocksOf(0..MaxBlockNumber, {7}, Hashes, Statuses, {<< >>})

\* The owner calls start() once, and both light clients start.
StartOnce == start_calls = 0 /\ start(TRUE, TRUE)

QueryFetch == LoopFetch(QueryBlocks)

HashAndNumberQuery == get_block_hash_and_number

BlockQuery == \E block_id \in BlockIds : get_block_with_tx_hashes(block_id)

ReceiptQuery ==
    \E provider \in ReceiptAnswers, l1 \in L1RootAnswers, tx_hash \in TxHashStrings :
        starknet_get_transaction_receipt(tx_hash, l1, provider)

NextQuery ==
    \/ StartOnce
    \/ LoopStateRoot
    \/ LoopLastProvenBlock
    \/ QueryFetch
    \/ LoopMerge
    \/ LoopSleep
    \/ HashAndNumberQuery
    \/ BlockQuery
    \/ ReceiptQuery

SpecQuery == Init /\ [][NextQuery]_vars

\* The projection of a cached block, over every transaction list of a length
\* up to MaxTxs: the cache holds one accepted block and the loop sleeps.
RECURSIVE SeqsUpTo(_, _)
SeqsUpTo(S, n) ==
    IF n = 0 THEN {<< >>}
    ELSE SeqsUpTo(S, n - 1)
            \cup {Append(s, x) : s \in {t \in SeqsUpTo(S, n - 1) : Len(t) = n - 1}, x \in S}

TxBlocks ==
    BlocksOf({1}, {7}, {1}, {"AcceptedOnL2"}, SeqsUpTo(Transactions, MaxTxs))

InitTx ==
    \E block \in TxBlocks :
        /\ sync_status = "Synced"
        /\ node = Insert(NodeData_new, block)
        /\ eth_starts = 1
        /\ sn_starts = 1
        /\ spawned = 1
        /\ start_calls = 1
        /\ start_result = "Ok"
        /\ loop_pc = "sleep"
        /\ fetched = [kind |-> "Block", block |-> block]
        /\ accepted = {block}
        /\ highest_seen = [seen |-> TRUE, block |-> block]
        /\ result = NoResult
        /\ l1_state_root = 7
        /\ node_lock = Unlocked
        /\ query_pc = "idle"
        /\ query_tx = NoTx
        /\ l1_read = NoL1Read
        /\ answers = << >>

TxQuery ==
    \E block_id \in [tag : {"Number"}, number : 0..1] \cup [tag : {"Latest"}] :
        get_block_with_tx_hashes(block_id)

NextTx == TxQuery

SpecTx == InitTx /\ [][NextTx]_vars

\* Every query operation against the synchronizing cache, while the L1 oracle
\* moves between roots; the provider varies the number of its latest block.
OpsBlocks ==
    BlocksOf(0..MaxBlockNumber, {7}, {1}, {"AcceptedOnL2"}, {<< >>})

OpsFetch == LoopFetch(OpsBlocks)

StorageQuery ==
    \E l1 \in L1BlockAnswers, provider \in CallAnswers :
        starknet_get_storage_at(l1, provider)

CallQuery ==
    \E l1 \in L1BlockAnswers, provider \in CallAnswers :
        starknet_call_contract(l1, provider)

NonceQuery ==
    \E l1 \in L1BlockAnswers, provider \in CallAnswers :
        starknet_get_nonce(l1, provider)

FeeQuery == \E provider \in CallAnswers : starknet_estimate_fee(provider)

L1MessageQuery ==
    \E op \in L1MessageOps, answer \in L1CallAnswers : L1MessageRead(op, answer)

OracleReceiptQuery ==
    \E l1 \in OracleRootAnswers, provider \in ReceiptAnswers,
       tx_hash \in TxHashStrings :
        starknet_get_transaction_receipt(tx_hash, l1, provider)

TransactionQuery ==
    \E tx_hash \in TxHashStrings, provider \in CallAnswers :
        get_transaction_by_hash(tx_hash, provider)

NextOps ==
    \/ StartOnce
    \/ LoopStateRoot
    \/ LoopLastProvenBlock
    \/ OpsFetch
    \/ LoopMerge
    \/ LoopSleep
    \/ L1Advance
    \/ StorageQuery
    \/ CallQuery
    \/ NonceQuery
    \/ FeeQuery
    \/ L1MessageQuery
    \/ HashAndNumberQuery
    \/ BlockQuery
    \/ OracleReceiptQuery
    \/ TransactionQuery

SpecOps == Init /\ [][NextOps]_vars

\* The sync loop writing the cache field by field under the write guard,
\* against queries that take the read guard.
LockBlocks ==
    BlocksOf(0..MaxBlockNumber, Roots, {1}, {"AcceptedOnL2"}, {<< >>})

LockFetch == LoopFetch(LockBlocks)

ReceiptCall == \E tx_hash \in TxHashStrings : ReceiptBegin(tx_hash)

ReceiptOracle == \E l1 \in L1RootAnswers : ReceiptL1(l1)

ReceiptProvider == \E provider \in ReceiptAnswers : ReceiptL2(provider)

NextLock ==
    \/ StartOnce
    \/ LoopStateRoot
    \/ LoopLastProvenBlock
    \/ LockFetch
    \/ LoopAcquireWrite
    \/ LoopAssignNumber
    \/ LoopAssignRoot
    \/ LoopInsert
    \/ LoopReleaseWrite
    \/ LoopSleep
    \/ LockedHashAndNumber
    \/ ReceiptCall
    \/ ReceiptOracle
    \/ ReceiptProvider

SpecLock == Init /\ [][NextLock]_vars

\* The same system under the scheduling the runtime gives it: a task that can
\* take its next step is polled again, every L1 and L2 call answers, and the
\* RwLock serves its waiters in order, so the loop's write() is not overtaken
\* forever by later readers. Nothing obliges a caller to make a query.
LiveFairness ==
    /\ WF_vars(LoopStateRoot)
    /\ WF_vars(LoopLastProvenBlock)
    /\ WF_vars(LockFetch)
    /\ SF_vars(LoopAcquireWrite)
    /\ WF_vars(LoopAssignNumber)
    /\ WF_vars(LoopAssignRoot)
    /\ WF_vars(LoopInsert)
    /\ WF_vars(LoopReleaseWrite)
    /\ WF_vars(LoopSleep)
    /\ WF_vars(ReceiptOracle)
    /\ WF_vars(ReceiptProvider)

SpecLive == Init /\ [][NextLock]_vars /\ LiveFairness

\* The sync loop with the L1 values it read kept beside the provider's
\* answers: the oracle reports any root and any last proven block.
RecordedFetch == LoopFetchRecorded(OpsBlocks)

NextL1 ==
    \/ StartOnce
    \/ LoopReadStateRoot
    \/ LoopReadLastProvenBlock
    \/ RecordedFetch
    \/ LoopMerge
    \/ LoopSleep

SpecL1 == Init /\ [][NextL1]_vars

\* ------------------------------------------------------------------- claims
AcceptedNumbers == {b.block_number : b \in accepted}

\* C1: over every sequence of provider answers the cached block_number never
\* decreases from one state to the next, and it always equals the largest
\* number among the blocks accepted so far (0 when none was accepted).
C1_BlockNumberMonotoneMax ==
    [][/\ node.block_number = MaxOf(AcceptedNumbers)
       /\ node'.block_number >= node.block_number
       /\ node'.block_number = MaxOf({b.block_number : b \in accepted'})]_vars

\* Two blocks were accepted and the highest number the provider reports is cached.
C1_Witness ==
    /\ Cardinality(accepted) >= 2
    /\ node.block_number = MaxBlockNumber
    /\ loop_pc = "sleep"

\* C2: in every reachable cache, block_number is the largest key of payload
\* (0 when payload is empty) and state_root is the new_root of the block stored
\* at block_number (the empty string when payload is empty).
C2_CacheInvariant ==
    /\ node.block_number = MaxOf(DOMAIN node.payload)
    /\ IF DOMAIN node.payload = {}
       THEN node.state_root = ""
       ELSE node.state_root = to_string(node.payload[node.block_number].new_root)

\* The cache holds two blocks whose roots differ.
C2_Witness ==
    /\ Cardinality(DOMAIN node.payload) >= 2
    /\ \E j, k \in DOMAIN node.payload :
          node.payload[j].new_root # node.payload[k].new_root

\* C3: payload never has an entry at key 0, whatever the cache held when a
\* block numbered 0 was fetched.
C3_NoBlockZero == 0 \notin DOMAIN node.payload

\* A finalized block numbered 0 was fetched on the empty cache and handled.
C3_Witness ==
    /\ loop_pc = "sleep"
    /\ fetched.kind = "Block"
    /\ fetched.block.block_number = 0
    /\ node = NodeData_new

C5_OrderIndependent ==
    /\ []((loop_pc # "merge" /\ highest_seen.seen
            /\ highest_seen.block.block_number > 0)
          => /\ node.block_number = highest_seen.block.block_number
             /\ node.state_root = to_string(highest_seen.block.new_root))
    /\ [][(loop_pc = "merge" /\ fetched.kind = "Block"
            /\ fetched.block.block_number < node.block_number)
          => node' = node]_vars

\* An older block with another root came after a newer one and was handled.
C5_Witness ==
    /\ loop_pc = "sleep"
    /\ fetched.kind = "Block"
    /\ 0 < fetched.block.block_number
    /\ fetched.block.block_number < node.block_number
    /\ to_string(fetched.block.new_root) # node.state_root
    /\ fetched.block.block_number \notin DOMAIN node.payload

ReceiptDone == result.op = "starknet_get_transaction_receipt"

\* C6 as stated: with the L1 root read, the receipt lookup fails with the
\* state-root mismatch when the root differs from the cached state_root and
\* succeeds when the two are equal.
C6_Original ==
    (ReceiptDone /\ result.l1.ok)
        => IF to_string(result.l1.value) # node.state_root
           THEN result.out = Err("State root mismatch")
           ELSE result.out.kind = "Ok"

\* C6 amended: with the L1 root read, the receipt lookup returns the
\* state-root mismatch exactly when the root differs from the cached
\* state_root; when the two are equal the outcome is the provider's answer
\* for a hash that parses, and an abort for a hash that does not.
C6_MismatchIffRootsDiffer ==
    (ReceiptDone /\ result.l1.ok)
        => IF to_string(result.l1.value) # node.state_root
           THEN result.out = Err("State root mismatch")
           ELSE result.out = IF from_hex_be_ok(result.tx_hash)
                             THEN result.provider
                             ELSE Panic

\* A lookup passed the freshness check on a cache that holds a block.
C6_Witness ==
    /\ ReceiptDone
    /\ result.l1.ok
    /\ node.block_number > 0
    /\ to_string(result.l1.value) = node.state_root
    /\ result.out = Ok("receipt")

HighestAccepted ==
    CHOOSE b \in accepted : \A c \in accepted : c.block_number <= b.block_number

\* C7: get_block_hash_and_number fails with "Block not found" while no block
\* has been accepted, and afterwards returns the number and the hash of the
\* accepted block with the highest number.
C7_HashAndNumber ==
    result.op = "get_block_hash_and_number"
        => IF accepted = {}
           THEN result.out = Err("Block not found")
           ELSE result.out = Ok([block_hash |-> HighestAccepted.block_hash,
                                 block_number |-> HighestAccepted.block_number])

\* The query answered from a cache of two blocks with different hashes.
C7_Witness ==
    /\ result.op = "get_block_hash_and_number"
    /\ result.out.kind = "Ok"
    /\ Cardinality({b.block_hash : b \in accepted}) >= 2

BlockQueryDone == result.op = "get_block_with_tx_hashes"

\* C8: get_block_with_tx_hashes for a number present in the cache returns as
\* many hashes as the cached block has transactions, the i-th being the
\* transaction_hash of the i-th transaction, whatever its kind.
C8_TxHashesProjection ==
    (BlockQueryDone /\ result.block_id.tag = "Number"
        /\ result.block_id.number \in DOMAIN node.payload)
        => /\ result.out.kind = "Ok"
           /\ Len(result.out.value.transactions)
                 = Len(node.payload[result.block_id.number].transactions)
           /\ \A i \in 1..Len(node.payload[result.block_id.number].transactions) :
                 result.out.value.transactions[i]
                    = node.payload[result.block_id.number].transactions[i].transaction_hash

\* The query projected a block of MaxTxs transactions of different kinds.
C8_Witness ==
    /\ BlockQueryDone
    /\ result.block_id.tag = "Number"
    /\ result.out.kind = "Ok"
    /\ Len(result.out.value.transactions) = MaxTxs
    /\ Cardinality({node.payload[result.block_id.number].transactions[i].kind :
                       i \in 1..MaxTxs}) = MaxTxs

\* C9: get_block_with_tx_hashes with the Pending tag fails in every reachable
\* state, because no cached block has status Pending.
C9_PendingTagFails ==
    (BlockQueryDone /\ result.block_id.tag = "Pending")
        => /\ result.out.kind = "Err"
           /\ \A k \in DOMAIN node.payload : node.payload[k].status # "Pending"

\* C10: once a start() call has succeeded, no later step starts a light
\* client or spawns a sync loop, every later start() call returns Ok, and at
\* most one sync loop is ever spawned.
C10_StartIdempotent ==
    /\ [](spawned <= 1)
    /\ [][spawned >= 1
            => /\ eth_starts' = eth_starts
               /\ sn_starts' = sn_starts
               /\ spawned' = spawned
               /\ start_result' = "Ok"]_vars

\* start() was called again after the call that succeeded.
C10_Witness ==
    /\ spawned = 1
    /\ start_result = "Ok"
    /\ start_calls > eth_starts
    /\ eth_starts >= 2

StartErrors == {"Err(ethereum)", "Err(starknet)"}

\* C11: when the latest start() call returned the error of a light client that
\* failed to start, no sync loop has been spawned, sync_status is NotSynced
\* and the cache is empty; and every start() call made before a loop was
\* spawned returned such an error.
C11_StartFailurePropagates ==
    /\ start_result \in StartErrors
          => /\ spawned = 0
             /\ loop_pc = "none"
             /\ sync_status = "NotSynced"
             /\ node = NodeData_new
    /\ (start_calls > 0 /\ spawned = 0) => start_result \in StartErrors
    /\ start_result = "Err(starknet)" => sn_starts > 0
    /\ (start_result = "Err(ethereum)" /\ start_calls = 1) => sn_starts = 0

\* The L1 client started and the L2 client then failed, on a second call.
C11_Witness ==
    /\ start_result = "Err(starknet)"
    /\ start_calls >= 2
    /\ eth_starts > sn_starts

\* C12: a failed L1 read in the sync loop does not stop the loop: once
\* spawned, the loop is always at one of the steps of an iteration.
C12_LoopSurvivesL1Failure ==
    spawned >= 1
        => loop_pc \in {"state_root", "last_proven_block", "fetch", "merge", "sleep"}

\* C16: while the answer of an iteration is a fetch error, no step changes
\* block_number, state_root or payload, the loop is at its delay, and from the
\* delay it goes on to the first step of the next iteration.
C16_FetchErrorSkipsIteration ==
    /\ [](fetched.kind = "Err" => loop_pc = "sleep")
    /\ [][/\ (fetched.kind = "Err" \/ fetched'.kind = "Err") => node' = node
          /\ (loop_pc = "sleep" /\ loop_pc' # "sleep") => loop_pc' = "state_root"]_vars

\* A fetch error was handled while the cache already held two blocks.
C16_Witness ==
    /\ loop_pc = "sleep"
    /\ fetched.kind = "Err"
    /\ Cardinality(DOMAIN node.payload) >= 2

\* C20: a key stored in payload stays in payload with the same block in every
\* later state.
C20_PayloadOnlyGrows ==
    [][\A k \in DOMAIN node.payload :
          k \in DOMAIN node'.payload /\ node'.payload[k] = node.payload[k]]_vars

\* Another block with the cached block_number was offered and did not replace
\* the stored one, in a cache holding every number the provider reports.
C20_Witness ==
    /\ loop_pc = "sleep"
    /\ fetched.kind = "Block"
    /\ Cardinality(DOMAIN node.payload) = MaxBlockNumber
    /\ fetched.block.block_number = node.block_number
    /\ fetched.block # node.payload[node.block_number]

\* ---------------------------------------------------------------------------
\* C13: get storage at, call contract and get nonce each pass exactly the last
\* proven block number read from the L1 oracle during the call, never the
\* cached block_number, as the block context of the L2 provider call; when
\* the L1 read fails the call returns that error and the provider is not
\* called.
StateReadOps ==
    {"starknet_get_storage_at", "starknet_call_contract", "starknet_get_nonce"}

C13_StateReadsUseL1Block ==
    result.op \in StateReadOps =>
        /\ result.l1.ok =>
              /\ result.call.called
              /\ result.call.block = result.l1.value
              /\ result.out = result.call.out
        /\ ~result.l1.ok =>
              /\ ~result.call.called
              /\ result.out = Err("l1")

\* A state read made at a block the cache does not hold as its latest.
C13_Witness ==
    /\ result.op = "starknet_get_nonce"
    /\ result.l1.ok
    /\ node.block_number > 0
    /\ result.call.block # node.block_number
    /\ result.out = Ok("value")

\* ---------------------------------------------------------------------------
\* C14: get_block_hash_and_number and get_block_with_tx_hashes compare the
\* cached state_root with a freshly read L1 root and fail with a state-root
\* mismatch when they differ, so cached block data is never returned while
\* the two roots differ.
CacheServedOps == {"get_block_hash_and_number", "get_block_with_tx_hashes"}

C14_CacheReadsCheckFreshness ==
    (result.op \in CacheServedOps /\ result.out.kind = "Ok")
        => ~RootsDiffer(node.state_root, l1_state_root)

\* ---------------------------------------------------------------------------
\* C15: every query operation reports a failure of the L2 provider, of the L1
\* oracle or of parsing its argument as an error result; none of them aborts.
C15_NoQueryPanics ==
    result.op # "none" => result.out.kind \in {"Ok", "Err"}

\* ---------------------------------------------------------------------------
\* C19: no query operation changes the cache, whether it succeeds or fails;
\* block_number, state_root and payload change only in the sync loop's
\* acceptance step.
C19_QueriesLeaveCache ==
    [][/\ result'.op # "none" => node' = node
       /\ node' # node => (loop_pc = "merge" /\ loop_pc' = "sleep"
                           /\ result'.op = "none")]_vars

\* A receipt lookup that failed its freshness check on a cache of two blocks.
C19_Witness ==
    /\ result.op = "starknet_get_transaction_receipt"
    /\ result.out = Err("State root mismatch")
    /\ Cardinality(DOMAIN node.payload) >= 2

\* ---------------------------------------------------------------------------
\* C17: a query running concurrently with an acceptance sees the cache either
\* entirely before or entirely after it, never block_number, state_root and
\* payload in a partial combination: whenever a reader holds the lock or a
\* query has just answered, the cache is exactly the accepted blocks.
AcceptedCache ==
    IF accepted = {} THEN NodeData_new
    ELSE [block_number |-> HighestAccepted.block_number,
          state_root |-> to_string(HighestAccepted.new_root),
          payload |-> [k \in AcceptedNumbers |->
                          CHOOSE b \in accepted : b.block_number = k]]

WriteSection == {"assign_number", "assign_root", "insert", "release"}

C17_NoTornRead ==
    /\ ~(node_lock.writer /\ node_lock.readers > 0)
    /\ (node_lock.readers > 0 \/ result.op # "none") => node = AcceptedCache
    /\ result.op = "get_block_hash_and_number" =>
          result.out = BlockHashAndNumber(AcceptedCache)
    /\ loop_pc \in WriteSection => node_lock.writer

\* A receipt lookup holds its read guard while the loop waits to accept a
\* newer block into a cache that already holds one.
C17_Witness ==
    /\ query_pc = "await_l2"
    /\ loop_pc = "merge"
    /\ fetched.kind = "Block"
    /\ node.block_number > 0
    /\ IsNewer(fetched.block, node)
    /\ fetched.block.new_root # node.payload[node.block_number].new_root

\* ---------------------------------------------------------------------------
\* C18: no task holds the cache lock across a suspension point: a query has
\* released the read side before it awaits the L1 oracle or the L2 provider,
\* and the loop holds the write side only between the return of its fetch and
\* the inter-iteration delay.
C18_NoLockAcrossAwait ==
    /\ query_pc \in {"await_l1", "await_l2"} => node_lock.readers = 0
    /\ node_lock.writer => loop_pc \in WriteSection

\* ---------------------------------------------------------------------------
\* C23: get_block_with_tx_hashes resolves its identifier against the cache
\* only: Latest returns the block stored at the cached block_number, a hash
\* returns a cached block with that block_hash, and a number, a hash or
\* Latest on the empty cache that matches no cached block yields an error.
C23_ResolvesAgainstCache ==
    BlockQueryDone =>
        /\ result.block_id.tag = "Latest" =>
              IF node.block_number \in DOMAIN node.payload
              THEN result.out = Ok(WithTxHashes(node.payload[node.block_number]))
              ELSE result.out.kind = "Err"
        /\ result.block_id.tag = "Hash" =>
              IF \E k \in DOMAIN node.payload :
                    node.payload[k].block_hash = result.block_id.hash
              THEN \E k \in DOMAIN node.payload :
                      /\ node.payload[k].block_hash = result.block_id.hash
                      /\ result.out = Ok(WithTxHashes(node.payload[k]))
              ELSE result.out.kind = "Err"
        /\ result.block_id.tag = "Number" =>
              IF result.block_id.number \in DOMAIN node.payload
              THEN result.out = Ok(WithTxHashes(node.payload[result.block_id.number]))
              ELSE result.out.kind = "Err"
        /\ result.out.kind = "Ok" =>
              \E k \in DOMAIN node.payload :
                  result.out.value = WithTxHashes(node.payload[k])

\* A hash identifier found a cached block that is not the latest one.
C23_Witness ==
    /\ BlockQueryDone
    /\ result.block_id.tag = "Hash"
    /\ Cardinality(DOMAIN node.payload) >= 2
    /\ result.out.kind = "Ok"
    /\ result.out.value.block_number # node.block_number
    /\ node.payload[node.block_number].block_hash # result.block_id.hash

\* ---------------------------------------------------------------------------
\* C22: the lifecycle status is NotSynced from construction until a start()
\* call, changes only inside start(), passes through Syncing before it
\* becomes Synced, and never moves back to an earlier value.
LifecycleSteps == {<<"NotSynced", "Syncing">>, <<"Syncing", "Synced">>}

C22_LifecycleOrder ==
    /\ [](start_calls = 0 => sync_status = "NotSynced")
    /\ [][sync_status' # sync_status =>
             /\ start_calls' = start_calls + 1
             /\ <<sync_status, sync_status'>> \in LifecycleSteps]_vars

\* ---------------------------------------------------------------------------
\* C21: whether the loop accepts a fetched block does not depend on the L1
\* values read in that iteration: the cache is a function of the sequence of
\* provider answers alone, so two runs with the same answers and different
\* L1 state roots and last proven block numbers end with the same cache, and
\* a cached block number may exceed the L1 last proven block number.
RECURSIVE CacheAfter(_)
CacheAfter(seq) ==
    IF seq = << >> THEN NodeData_new
    ELSE LET before == CacheAfter(SubSeq(seq, 1, Len(seq) - 1))
             last == seq[Len(seq)]
         IN  IF /\ last.kind = "Block"
                /\ last.block.block_number > before.block_number
                /\ last.block.block_number > 0
             THEN [block_number |-> last.block.block_number,
                   state_root |-> to_string(last.block.new_root),
                   payload |-> [k \in DOMAIN before.payload
                                        \cup {last.block.block_number} |->
                                   IF k = last.block.block_number
                                   THEN last.block
                                   ELSE before.payload[k]]]
             ELSE before

HandledAnswers ==
    IF loop_pc = "merge" THEN SubSeq(answers, 1, Len(answers) - 1) ELSE answers

C21_AcceptanceIgnoresL1 == node = CacheAfter(HandledAnswers)

\* The loop has just accepted a block numbered above the last proven block
\* it read from L1 in the same iteration, under a root L1 does not attest.
C21_Witness ==
    /\ loop_pc = "sleep"
    /\ fetched.kind = "Block"
    /\ node.block_number = fetched.block.block_number
    /\ Len(answers) >= 2
    /\ node.block_number > l1_read.last_proven_block
    /\ node.state_root # to_string(l1_read.state_root)

\* ---------------------------------------------------------------------------
\* C24: the sync loop and concurrent queries never deadlock on the locks:
\* under fair scheduling, and provided every L1 and L2 call returns, every
\* sync-loop iteration that begins reaches its inter-iteration delay and every
\* query that was called returns.
C24_EverythingCompletes ==
    /\ (loop_pc = "state_root") ~> (loop_pc = "sleep")
    /\ (query_pc # "idle") ~> (query_pc = "idle")

====
